---- MODULE Spec2Model ----
(***************************************************************************)
(* Model of src/flet_multi_countdown_timer.py: the CountdownTimer class    *)
(* (start / pause / reset handlers, the _run background coroutine and      *)
(* _sync_ui) and the application shell built by main (the timers list,     *)
(* show_timer, add_timer, the drawer's navigation buttons).                *)
(*                                                                         *)
(* Time is counted in ticks of one sleep interval (asyncio.sleep(0.1)),    *)
(* so one second is TicksPerSecond ticks.  total_seconds is kept in whole  *)
(* seconds as in the code; remaining, which the code turns into a float by *)
(* subtracting elapsed monotonic time, is kept in ticks.  Of the monotonic *)
(* clock only differences mean anything (its reference point is undefined) *)
(* and only _run reads it: a task keeps the time since its last_tick and   *)
(* the time left of its sleep, and time passes where a task is resumed.    *)
(* Text values (TextField.value, Text.value, names) are sequences of       *)
(* one-character strings so that int(), str() and the MM:SS format are     *)
(* computed.                                                               *)
(***************************************************************************)
EXTENDS Integers, Sequences, FiniteSets, TLC

VARIABLES
    timers,          \* main's list `timers`: one record per CountdownTimer
    tasks,           \* tasks[i]: every _run coroutine page.run_task started for timer i
    nav,             \* the drawer's navigation buttons, in order
    selected_index,  \* selected_index['idx'] (0-based, as in the code)
    content,         \* 0-based index of the timer whose view content_container shows
    ops,             \* number of user events handled so far
    advances,        \* number of resumptions before which time passed (Spec)
    last,            \* the event handled last (d: the ticks that passed with it)
    fresh            \* fresh[i]: start() has set timer i running and no pass of
                     \* its _run has seen it running since

vars == <<timers, tasks, nav, selected_index, content, ops, advances, last,
          fresh>>

----------------------------------------------------------------------------
(* Bounds of the model *)

MaxOps == 3
MaxAdvances == 2
MaxTimers == 4

\* the amounts of monotonic time (in ticks) that may pass before a sleeping
\* task is resumed, beyond the time that has passed already
AdvanceSteps == {1, 601}

\* the same where the number of resumptions is not bounded
LiveAdvanceSteps == {601}

\* the texts a user types into the "Start seconds" field
TypedTexts == { <<>>, <<"a", "b", "c">>, <<"-", "5">>, <<"0">>, <<"4", "5">> }

\* the same where the number of resumptions is not bounded: a text int()
\* fails on and a new duration
LiveTypedTexts == { <<"a", "b", "c">>, <<"4", "5">> }

\* the timers (1-based positions in `timers`) whose buttons the user clicks
OperatedTimers == {1, 2}

----------------------------------------------------------------------------
(* Program constants *)

TicksPerSecond == 10       \* asyncio.sleep(0.1): one tick is 0.1 s
SleepTicks == 1            \* asyncio.sleep(0.1)
NoTick == -1               \* last_tick = None
InitialTimers == 3         \* range(3)
InitialStep == 60          \* default_seconds=60*(i+1)
AddedAsFirst == InitialStep         \* an add_timer that copies the first timer's default
AddedDefault == 30         \* default_seconds=30

\* the longest duration a timer of main starts with, in ticks.  A last_tick
\* that lies at least this far back yields the same pass of _run however far
\* back it lies, so the time since the last tick is counted up to here.
TickCap == InitialStep * InitialTimers * TicksPerSecond

----------------------------------------------------------------------------
(* Text: str(), int() and the format of f"{m:02d}:{sec:02d}" *)

DigitChars == <<"0", "1", "2", "3", "4", "5", "6", "7", "8", "9">>

RECURSIVE ToDigits(_)
ToDigits(n) ==
    IF n < 10 THEN <<DigitChars[n + 1]>>
    ELSE ToDigits(n \div 10) \o <<DigitChars[(n % 10) + 1]>>

\* str(n)
Str(n) == IF n < 0 THEN <<"-">> \o ToDigits(-n) ELSE ToDigits(n)

\* f"{n:02d}" for n >= 0
Pad2(n) == IF n < 10 THEN <<"0">> \o ToDigits(n) ELSE ToDigits(n)

DigitValue(c) == CHOOSE d \in 0..9 : DigitChars[d + 1] = c

IsDigit(c) == \E d \in 0..9 : DigitChars[d + 1] = c

RECURSIVE DigitsValue(_)
DigitsValue(s) ==
    IF Len(s) = 0 THEN 0
    ELSE 10 * DigitsValue(SubSeq(s, 1, Len(s) - 1)) + DigitValue(s[Len(s)])

\* int(text): [ok |-> FALSE] stands for ValueError.  (Of what int() accepts,
\* an optional sign followed by decimal digits is modelled; the typed texts
\* hold no blanks or underscores.)
ParseInt(txt) ==
    LET signed == Len(txt) > 0 /\ txt[1] \in {"-", "+"}
        body   == IF signed THEN Tail(txt) ELSE txt
        good   == Len(body) > 0 /\ \A k \in 1..Len(body) : IsDigit(body[k])
    IN  IF good
        THEN [ok |-> TRUE,
              val |-> IF signed /\ txt[1] = "-" THEN -DigitsValue(body)
                      ELSE DigitsValue(body)]
        ELSE [ok |-> FALSE, val |-> 0]

\* CountdownTimer._format_time(s), s a whole number of seconds
FormatTime(s) ==
    LET s0  == IF s < 0 THEN 0 ELSE s
        m   == s0 \div 60
        sec == s0 % 60
    IN  Pad2(m) \o <<":">> \o Pad2(sec)

\* an int(self.remaining) in the place of math.ceil: rounds down
FloorSeconds(r) == r \div TicksPerSecond

\* math.ceil(self.remaining): remaining in ticks, the result in seconds
CeilSeconds(r) == -((-r) \div TicksPerSecond)

\* a _progress_fraction() that reports the share still to go
RemainingFraction(t) ==
    [num |-> t.remaining, den |-> t.total_seconds * TicksPerSecond]

\* CountdownTimer._progress_fraction(): the fraction num/den, clamped to [0, 1]
ProgressFraction(t) ==
    IF t.total_seconds <= 0 THEN [num |-> 0, den |-> 1]
    ELSE LET den == t.total_seconds * TicksPerSecond
             raw == den - t.remaining
             hi  == IF raw < den THEN raw ELSE den
             lo  == IF hi > 0 THEN hi ELSE 0
         IN  [num |-> lo, den |-> den]

\* f"Timer {n}"
TimerName(n) == <<"T", "i", "m", "e", "r", " ">> \o Str(n)

----------------------------------------------------------------------------
(* CountdownTimer *)

\* CountdownTimer._sync_ui(): the timer record with its controls recomputed.
\* page.update() changes no state of the model; its failure is swallowed.
SyncUi(t) ==
    [t EXCEPT !.time_text = FormatTime(CeilSeconds(t.remaining)),
              !.ring = ProgressFraction(t),
              !.bar = ProgressFraction(t),
              !.start_disabled = t.running,
              !.pause_disabled = ~t.running,
              !.reset_disabled =
                  (t.remaining = t.total_seconds * TicksPerSecond /\ ~t.running)]

\* CountdownTimer.__init__(page, name, default_seconds).  _sync_ui is not
\* called: the buttons keep the controls' default, disabled = False.
NewTimer(name, default_seconds) ==
    LET t == [name |-> name,
              default_seconds |-> default_seconds,
              total_seconds |-> default_seconds,
              remaining |-> default_seconds * TicksPerSecond,
              running |-> FALSE,
              task |-> 0,
              input0 |-> Str(default_seconds),
              start_disabled |-> FALSE,
              pause_disabled |-> FALSE,
              reset_disabled |-> FALSE,
              time_text |-> <<>>,
              ring |-> [num |-> 0, den |-> 1],
              bar |-> [num |-> 0, den |-> 1]]
    IN  [t EXCEPT !.time_text = FormatTime(t.remaining \div TicksPerSecond),
                  !.ring = ProgressFraction(t),
                  !.bar = ProgressFraction(t)]

\* a _run coroutine as page.run_task leaves it: last_tick = None, suspended
\* in the first asyncio.sleep(0.1).  since_tick is time.monotonic() - last_tick
\* (NoTick while last_tick is None), sleep_left the rest of the sleep.
NewTask == [pc |-> "sleep1", since_tick |-> NoTick, sleep_left |-> SleepTicks]

\* a _run that does not leave its loop
StillLooping == [pc |-> "sleep1", since_tick |-> NoTick, sleep_left |-> 0]

\* a _run coroutine that has returned: its frame, and last_tick with it, is gone
DoneTask == [pc |-> "done", since_tick |-> NoTick, sleep_left |-> 0]

\* a start() that does not look at the task it holds
AlwaysSpawns(i) == TRUE

\* a start() that spawns a loop the first time only
SpawnsOnlyOnce(i) == timers[i].task = 0

\* self._task.done()
TaskDone(i, k) == tasks[i][k].pc = "done"

\* `self._task is None or self._task.done()`
NeedsSpawn(i) == timers[i].task = 0 \/ TaskDone(i, timers[i].task)

\* the number of _run coroutines of timer i that have not returned
LiveTasks(i) == Cardinality({k \in 1..Len(tasks[i]) : tasks[i][k].pc # "done"})

\* a start() that gives up on a text that is no number
OnValueErrorReturns(t) == [t |-> t, returned |-> TRUE]

\* start(): `except Exception: pass`
OnValueError(t) == [t |-> t, returned |-> FALSE]

\* a start() that lets zero through
RejectsNegative(val) == val < 0

\* start(): `if val <= 0`
Rejects(val) == val <= 0

\* a start() that reconfigures on a changed value only
ReconfiguresOnChange(t, val) == val # t.total_seconds

\* start(): `if self.remaining <= 0 or val != self.total_seconds`
Reconfigures(t, val) == t.remaining <= 0 \/ val # t.total_seconds

\* start(): the try block, txt being self.input.value.  Result: the timer and
\* whether start returned early.
StartParse(t, txt) ==
    LET p == ParseInt(txt)
    IN  IF ~p.ok THEN OnValueError(t)
        ELSE IF Rejects(p.val) THEN [t |-> t, returned |-> TRUE]
        ELSE IF Reconfigures(t, p.val)
        THEN [t |-> SyncUi([t EXCEPT !.total_seconds = p.val,
                                     !.remaining = p.val * TicksPerSecond]),
              returned |-> FALSE]
        ELSE [t |-> t, returned |-> FALSE]

\* start(e): Start is clicked while the input field holds txt.  (The field is
\* written by the user alone, so its text is an input of the click.)
Start(i, txt) ==
    /\ ops < MaxOps
    /\ LET r == StartParse(timers[i], txt)
       IN  IF r.returned \/ r.t.running
           THEN /\ timers' = [timers EXCEPT ![i] = r.t]
                /\ tasks' = tasks
                /\ fresh' = fresh
           ELSE IF NeedsSpawn(i)
           THEN /\ timers' = [timers EXCEPT ![i] =
                                SyncUi([r.t EXCEPT !.running = TRUE,
                                                   !.task = Len(tasks[i]) + 1])]
                /\ tasks' = [tasks EXCEPT ![i] = Append(@, NewTask)]
                /\ fresh' = [fresh EXCEPT ![i] = TRUE]
           ELSE /\ timers' = [timers EXCEPT ![i] =
                                SyncUi([r.t EXCEPT !.running = TRUE])]
                /\ tasks' = tasks
                /\ fresh' = [fresh EXCEPT ![i] = TRUE]
    /\ ops' = ops + 1
    /\ last' = [op |-> "start", i |-> i, txt |-> txt, d |-> 0]
    /\ UNCHANGED <<nav, selected_index, content, advances>>

\* a pause() that stops every timer
PauseEvery(i) ==
    /\ ops < MaxOps
    /\ timers' = [j \in 1..Len(timers) |-> SyncUi([timers[j] EXCEPT !.running = FALSE])]
    /\ fresh' = fresh
    /\ ops' = ops + 1
    /\ last' = [op |-> "pause", i |-> i, txt |-> <<>>, d |-> 0]
    /\ UNCHANGED <<tasks, nav, selected_index, content, advances>>

\* pause(e)
Pause(i) ==
    /\ ops < MaxOps
    /\ timers' = IF timers[i].running
                 THEN [timers EXCEPT ![i] = SyncUi([@ EXCEPT !.running = FALSE])]
                 ELSE timers
    /\ fresh' = fresh
    /\ ops' = ops + 1
    /\ last' = [op |-> "pause", i |-> i, txt |-> <<>>, d |-> 0]
    /\ UNCHANGED <<tasks, nav, selected_index, content, advances>>

\* a reset() that goes back to the default duration
ResetToDefault(t) ==
    [t EXCEPT !.running = FALSE, !.remaining = t.default_seconds * TicksPerSecond]

\* reset(): the two assignments
ResetTimer(t) ==
    [t EXCEPT !.running = FALSE, !.remaining = t.total_seconds * TicksPerSecond]

\* reset(e)
Reset(i) ==
    /\ ops < MaxOps
    /\ timers' = [timers EXCEPT ![i] = SyncUi(ResetTimer(timers[i]))]
    /\ fresh' = fresh
    /\ ops' = ops + 1
    /\ last' = [op |-> "reset", i |-> i, txt |-> <<>>, d |-> 0]
    /\ UNCHANGED <<tasks, nav, selected_index, content, advances>>

\* a _run() that takes a new baseline on every pass
NothingElapsed(tk, d) == 0

\* _run(): `if last_tick is None: last_tick = now` and `elapsed = now - last_tick`
\* for the task tk, resumed d ticks on
Elapsed(tk, d) == IF tk.since_tick = NoTick THEN 0 ELSE tk.since_tick + d

\* a task after d ticks have passed without it running
AgedTask(tk, d) ==
    IF tk.pc = "done" THEN tk
    ELSE [tk EXCEPT !.since_tick = IF @ = NoTick THEN NoTick
                                   ELSE IF @ + d > TickCap THEN TickCap ELSE @ + d,
                    !.sleep_left = IF @ > d THEN @ - d ELSE 0]

\* all tasks after d ticks have passed
Aged(d) == [i \in 1..Len(tasks) |-> [k \in 1..Len(tasks[i]) |-> AgedTask(tasks[i][k], d)]]

\* a _run() that stops on exactly zero only
ExpiredExactly(rem) == rem = 0

\* _run(): `if self.remaining <= 0`, rem being remaining after the subtraction
Expired(rem) == rem <= 0

\* a _run() that counts down whether the timer runs or not
NeverIdles(t) == FALSE

\* _run(): `if not self.running`
Idles(t) == ~t.running

\* an `await asyncio.sleep(0.1)` of task k of timer i returns when d more
\* ticks have passed: no earlier than SleepTicks after it began
Resumes(i, k, d) ==
    /\ tasks[i][k].pc \in {"sleep1", "sleep2"}
    /\ d >= tasks[i][k].sleep_left

\* _run(): the body of one `while True` pass of task k of timer i, from the
\* return of `await asyncio.sleep(0.1)` at the top of the loop, d ticks on,
\* to the next await or to the break
RunPass(i, k, d) ==
    LET t  == timers[i]
        rem == t.remaining - Elapsed(tasks[i][k], d)
    IN  IF Idles(t)
        THEN /\ tasks' = [Aged(d) EXCEPT ![i][k] =
                            [@ EXCEPT !.pc = "sleep2", !.sleep_left = SleepTicks]]
             /\ timers' = timers
             /\ fresh' = fresh
        ELSE IF Expired(rem)
        THEN /\ timers' = [timers EXCEPT ![i] =
                            SyncUi([t EXCEPT !.remaining = 0, !.running = FALSE])]
             /\ tasks' = [Aged(d) EXCEPT ![i][k] = DoneTask]
             /\ fresh' = [fresh EXCEPT ![i] = FALSE]
        ELSE /\ timers' = [timers EXCEPT ![i] = SyncUi([t EXCEPT !.remaining = rem])]
             /\ tasks' = [Aged(d) EXCEPT ![i][k] =
                            [@ EXCEPT !.since_tick = 0, !.sleep_left = SleepTicks]]
             /\ fresh' = [fresh EXCEPT ![i] = FALSE]

\* _run(): task k of timer i wakes from an asyncio.sleep(0.1), d ticks on
LoopWake(i, k, d) ==
    /\ Resumes(i, k, d)
    /\ IF tasks[i][k].pc = "sleep1"
       THEN RunPass(i, k, d)
       ELSE /\ tasks' = [Aged(d) EXCEPT ![i][k] =
                           [@ EXCEPT !.pc = "sleep1", !.sleep_left = SleepTicks]]
            /\ timers' = timers
            /\ fresh' = fresh
    /\ last' = [op |-> "wake", i |-> i, txt |-> <<>>, d |-> d]
    /\ UNCHANGED <<nav, selected_index, content, ops>>

\* a _run() whose except clause does not stop the timer
FailureLeavesRunning(i, k, d) ==
    /\ Resumes(i, k, d)
    /\ timers' = timers
    /\ tasks' = [Aged(d) EXCEPT ![i][k] = DoneTask]
    /\ fresh' = fresh
    /\ last' = [op |-> "fail", i |-> i, txt |-> <<>>, d |-> d]
    /\ UNCHANGED <<nav, selected_index, content, ops>>

\* _run(): `except Exception`: an unexpected error is raised as task k of
\* timer i resumes, before the pass changes anything
LoopFail(i, k, d) ==
    /\ Resumes(i, k, d)
    /\ timers' = [timers EXCEPT ![i] = SyncUi([@ EXCEPT !.running = FALSE])]
    /\ tasks' = [Aged(d) EXCEPT ![i][k] = DoneTask]
    /\ fresh' = fresh
    /\ last' = [op |-> "fail", i |-> i, txt |-> <<>>, d |-> d]
    /\ UNCHANGED <<nav, selected_index, content, ops>>

----------------------------------------------------------------------------
(* main: the application shell.  j is the 0-based index the code uses;      *)
(* timers[j + 1] is the code's timers[j].                                   *)

\* a button whose lambda reads the loop variable when clicked: every button
\* of the comprehension shows the last timer of range(3)
LateBinding(j) == [label |-> TimerName(j + 1), target |-> InitialTimers - 1]

\* ElevatedButton(f"Timer {j+1}", on_click=lambda e, i=j: show_timer(i))
NavButton(j) == [label |-> TimerName(j + 1), target |-> j]

\* a show_timer that pauses the timer it hides
show_and_pause(j) ==
    /\ ops < MaxOps
    /\ selected_index' = j
    /\ content' = j
    /\ timers' = [timers EXCEPT ![content + 1] = SyncUi([@ EXCEPT !.running = FALSE])]
    /\ ops' = ops + 1
    /\ last' = [op |-> "show", i |-> j + 1, txt |-> <<>>, d |-> 0]
    /\ UNCHANGED <<tasks, nav, advances, fresh>>

\* show_timer(j)
show_timer(j) ==
    /\ ops < MaxOps
    /\ selected_index' = j
    /\ content' = j
    /\ ops' = ops + 1
    /\ last' = [op |-> "show", i |-> j + 1, txt |-> <<>>, d |-> 0]
    /\ UNCHANGED <<timers, tasks, nav, advances, fresh>>

\* add_timer()
add_timer ==
    /\ ops < MaxOps
    /\ Len(timers) < MaxTimers
    /\ LET j == Len(timers)
       IN  /\ timers' = Append(timers, NewTimer(TimerName(j + 1), AddedDefault))
           /\ tasks' = Append(tasks, <<>>)
           /\ fresh' = Append(fresh, FALSE)
           /\ nav' = Append(nav, NavButton(j))
           /\ last' = [op |-> "add", i |-> j + 1, txt |-> <<>>, d |-> 0]
    /\ ops' = ops + 1
    /\ UNCHANGED <<selected_index, content, advances>>

\* main(page): the state when main returns
Init ==
    /\ timers = [j \in 1..InitialTimers |-> NewTimer(TimerName(j), InitialStep * j)]
    /\ tasks = [j \in 1..InitialTimers |-> <<>>]
    /\ nav = [j \in 1..InitialTimers |-> NavButton(j - 1)]
    /\ selected_index = 0
    /\ content = 0
    /\ ops = 0
    /\ advances = 0
    /\ last = [op |-> "init", i |-> 0, txt |-> <<>>, d |-> 0]
    /\ fresh = [j \in 1..InitialTimers |-> FALSE]

\* the timers that exist and that the user operates
Operated == OperatedTimers \cap (1..Len(timers))

\* what the input field of timer t may hold when Start is clicked: its
\* initial value, str(default_seconds), or a typed text
InputTexts(t) == TypedTexts \cup {t.input0}

\* how much later a sleeping task may be resumed
Delays == {0} \cup AdvanceSteps

\* time passes before at most MaxAdvances resumptions
Budget(d) ==
    /\ d > 0 => advances < MaxAdvances
    /\ advances' = IF d > 0 THEN advances + 1 ELSE advances

Next ==
    \/ \E i \in Operated : \E txt \in InputTexts(timers[i]) : Start(i, txt)
    \/ \E i \in Operated : Pause(i)
    \/ \E i \in Operated : Reset(i)
    \/ \E i \in 1..Len(timers) : \E k \in 1..Len(tasks[i]) :
           \E d \in Delays : Budget(d) /\ LoopWake(i, k, d)
    \/ \E i \in 1..Len(timers) : \E k \in 1..Len(tasks[i]) :
           \E d \in Delays : Budget(d) /\ LoopFail(i, k, d)
    \/ \E b \in 1..Len(nav) : show_timer(nav[b].target)
    \/ add_timer

Spec == Init /\ [][Next]_vars

\* The program run on: the user clicks at most MaxOps times, the event loop
\* never stops resuming sleeping tasks, and time passes as long as it runs.
LiveDelays == {0} \cup LiveAdvanceSteps

\* the loop of timer i is resumed
Wakes(i) ==
    \E k \in 1..Len(tasks[i]) : \E d \in LiveDelays :
        LoopWake(i, k, d) /\ advances' = advances

LiveNext ==
    \/ \E i \in Operated : \E txt \in LiveTypedTexts \cup {timers[i].input0} :
           Start(i, txt)
    \/ \E i \in Operated : Pause(i)
    \/ \E i \in Operated : Reset(i)
    \/ \E i \in 1..Len(timers) : Wakes(i)
    \/ \E i \in 1..Len(timers) : \E k \in 1..Len(tasks[i]) :
           \E d \in LiveDelays : LoopFail(i, k, d) /\ advances' = advances
    \/ \E b \in 1..Len(nav) : show_timer(nav[b].target)
    \/ add_timer

\* asyncio resumes every task whose sleep is over: each timer's loop is woken
\* again and again for as long as it has not returned.  (Only the operated
\* timers, which exist from the start, ever have a loop.)
LiveSpec ==
    /\ Init
    /\ [][LiveNext]_vars
    /\ \A i \in OperatedTimers : WF_vars(Wakes(i))

----------------------------------------------------------------------------
(* Properties *)

\* the step is start() on timer i
StartStep(i) == last'.op = "start" /\ last'.i = i

\* the step is a wake of task k of timer i
WakeStep(i, k) ==
    last'.op = "wake" /\ last'.i = i /\ tasks'[i][k] # AgedTask(tasks[i][k], last'.d)

\* txt is no positive whole number: int() fails on it or gives a value <= 0
NotPositiveWhole(txt) == ~ParseInt(txt).ok \/ ParseInt(txt).val <= 0

SameDuration(i) ==
    /\ timers'[i].total_seconds = timers[i].total_seconds
    /\ timers'[i].remaining = timers[i].remaining

\* C1: the first pass of the background loop that finds the timer running
\* after start() has activated it (the first Start, or a Start after a Pause
\* or Reset while the same task is alive) only sets the baseline: it does not
\* decrement remaining, so time that passed while the timer was not running
\* is never subtracted.
C1_FirstWakeOnlyBaselines ==
    [][\A i \in 1..Len(timers) : \A k \in 1..Len(tasks[i]) :
          (WakeStep(i, k) /\ tasks[i][k].pc = "sleep1" /\ timers[i].running /\ fresh[i])
              => timers'[i].remaining = timers[i].remaining]_vars

C3_RemainingInRange ==
    \A i \in 1..Len(timers) :
        /\ 0 <= timers[i].remaining
        /\ timers[i].remaining <= timers[i].total_seconds * TicksPerSecond

\* a timer reconfigured to 45 s is counting down, part of the way
C3_Witness ==
    \E i \in 1..Len(timers) :
        /\ timers[i].total_seconds = 45
        /\ timers[i].running
        /\ 0 < timers[i].remaining
        /\ timers[i].remaining < 45 * TicksPerSecond

\* C4: every timer has at most one background task that has not returned.
C4_AtMostOneLiveTask == \A i \in 1..Len(timers) : LiveTasks(i) <= 1

\* Start has just re-activated a paused timer whose loop is idling in the
\* paused sleep, and the timer still has that one task
C4_Witness ==
    /\ last.op = "start"
    /\ timers[last.i].running
    /\ Len(tasks[last.i]) = 1
    /\ tasks[last.i][1].pc = "sleep2"

\* C5: Start with a text that parses to a positive v: if remaining <= 0 or
\* v differs from total_seconds, both become v; otherwise both are unchanged.
C5_ReconfigurationRule ==
    [][\A i \in 1..Len(timers) :
          (StartStep(i) /\ ParseInt(last'.txt).ok /\ ParseInt(last'.txt).val > 0) =>
              LET v == ParseInt(last'.txt).val
              IN  IF timers[i].remaining <= 0 \/ v # timers[i].total_seconds
                  THEN /\ timers'[i].total_seconds = v
                       /\ timers'[i].remaining = v * TicksPerSecond
                  ELSE SameDuration(i)]_vars

\* Start with "45" has just reconfigured a timer that was counting down
C5_Witness ==
    /\ last.op = "start"
    /\ last.txt = <<"4", "5">>
    /\ timers[last.i].running
    /\ ~fresh[last.i]
    /\ timers[last.i].total_seconds = 45
    /\ timers[last.i].remaining = 45 * TicksPerSecond
    /\ \E k \in 1..Len(tasks[last.i]) : tasks[last.i][k].since_tick # NoTick

\* C6: Reset leaves remaining = total_seconds and running = false, with
\* total_seconds unchanged and the background task neither ended nor doubled.
C6_ResetRestores ==
    [][\A i \in 1..Len(timers) :
          (last'.op = "reset" /\ last'.i = i) =>
              /\ timers'[i].remaining = timers[i].total_seconds * TicksPerSecond
              /\ ~timers'[i].running
              /\ timers'[i].total_seconds = timers[i].total_seconds
              /\ timers'[i].task = timers[i].task
              /\ tasks'[i] = tasks[i]]_vars

\* Reset has just acted on a timer reconfigured to 45 s whose loop is alive
\* and has ticked
C6_Witness ==
    /\ last.op = "reset"
    /\ timers[last.i].total_seconds = 45
    /\ timers[last.i].remaining = 45 * TicksPerSecond
    /\ ~timers[last.i].running
    /\ LiveTasks(last.i) = 1
    /\ \E k \in 1..Len(tasks[last.i]) : tasks[last.i][k].since_tick # NoTick

\* C7: a pass of the loop of a running timer that brings remaining to <= 0
\* leaves remaining = 0 and running = false and ends the task; a task that
\* has ended stays ended, and every later loop step of the timer is a step
\* of a task that has not ended.
C7_CompletionTransition ==
    /\ [][\A i \in 1..Len(timers) : \A k \in 1..Len(tasks[i]) :
             (/\ WakeStep(i, k)
              /\ tasks[i][k].pc = "sleep1"
              /\ timers[i].running
              /\ timers[i].remaining - Elapsed(tasks[i][k], last'.d) <= 0)
                 => /\ timers'[i].remaining = 0
                    /\ ~timers'[i].running
                    /\ tasks'[i][k].pc = "done"]_vars
    /\ [][\A i \in 1..Len(timers) :
             /\ \A k \in 1..Len(tasks[i]) :
                    tasks[i][k].pc = "done" => tasks'[i][k] = tasks[i][k]
             /\ (last'.op \in {"wake", "fail"} /\ last'.i = i)
                    => \E k \in 1..Len(tasks[i]) :
                           /\ tasks[i][k].pc # "done"
                           /\ tasks'[i][k] # AgedTask(tasks[i][k], last'.d)]_vars

\* a pass of the loop has just finished a timer
C7_Witness ==
    /\ last.op = "wake"
    /\ timers[last.i].remaining = 0
    /\ ~timers[last.i].running
    /\ timers[last.i].task > 0
    /\ tasks[last.i][timers[last.i].task].pc = "done"

\* C8: show_timer(j) sets the selected index and the displayed view to j and
\* changes no timer, no task and no navigation entry; and a pass of the loop
\* of a running timer that is not displayed still subtracts the elapsed time.
C8_NavigationIndependence ==
    /\ [][last'.op = "show" =>
             /\ selected_index' = last'.i - 1
             /\ content' = last'.i - 1
             /\ timers' = timers
             /\ tasks' = tasks
             /\ nav' = nav]_vars
    /\ [][\A i \in 1..Len(timers) : \A k \in 1..Len(tasks[i]) :
             (/\ WakeStep(i, k)
              /\ tasks[i][k].pc = "sleep1"
              /\ timers[i].running
              /\ content # i - 1
              /\ Elapsed(tasks[i][k], last'.d) > 0)
                 => timers'[i].remaining < timers[i].remaining]_vars

\* the view has just been switched away from the first timer while it runs
C8_Witness ==
    /\ last.op = "show"
    /\ content # 0
    /\ selected_index = content
    /\ timers[1].running
    /\ LiveTasks(1) = 1

\* C9: with N timers, add_timer appends one timer "Timer N+1" with
\* default_seconds = total_seconds = remaining = 30, not running, without a
\* task, and one navigation entry that shows it; the selected index, the
\* displayed view and every existing timer are unchanged.
C9_DynamicAddition ==
    [][last'.op = "add" =>
          LET n == Len(timers)
          IN  /\ Len(timers') = n + 1
              /\ timers'[n + 1].name = <<"T", "i", "m", "e", "r", " ">> \o Str(n + 1)
              /\ (n = 3 => timers'[n + 1].name = <<"T", "i", "m", "e", "r", " ", "4">>)
              /\ timers'[n + 1].default_seconds = 30
              /\ timers'[n + 1].total_seconds = 30
              /\ timers'[n + 1].remaining = 30 * TicksPerSecond
              /\ ~timers'[n + 1].running
              /\ timers'[n + 1].task = 0
              /\ Len(tasks') = n + 1
              /\ tasks'[n + 1] = <<>>
              /\ nav' = Append(nav, [label |-> timers'[n + 1].name, target |-> n])
              /\ selected_index' = selected_index
              /\ content' = content
              /\ \A i \in 1..n : timers'[i] = timers[i] /\ tasks'[i] = tasks[i]]_vars

\* a fourth timer has just been added while the first one runs
C9_Witness ==
    /\ last.op = "add"
    /\ Len(timers) = 4
    /\ Len(nav) = 4
    /\ timers[1].running
    /\ ~timers[4].running

\* C10: Start with a text that is no positive whole number never changes
\* total_seconds or remaining, whether the timer runs, is paused or finished.
C10_InvalidStartKeepsDuration ==
    [][\A i \in 1..Len(timers) :
          (StartStep(i) /\ NotPositiveWhole(last'.txt)) => SameDuration(i)]_vars

\* Start with "-5" has just been clicked on a timer part of the way down
C10_Witness ==
    /\ last.op = "start"
    /\ last.txt = <<"-", "5">>
    /\ 0 < timers[last.i].remaining
    /\ timers[last.i].remaining < timers[last.i].total_seconds * TicksPerSecond

\* the step is a click on Start or Reset of timer i
RestartStep(i) == last'.op \in {"start", "reset"} /\ last'.i = i

\* C11: while running is false, no step other than a Start or Reset of the
\* timer changes remaining, total_seconds or running (so remaining keeps the
\* value it had when Pause was taken), and a wake of the timer's loop leaves
\* every task of the timer that has not returned alive.
C11_PausedTimerFrozen ==
    [][\A i \in 1..Len(timers) :
          (~timers[i].running /\ ~RestartStep(i)) =>
              /\ SameDuration(i)
              /\ ~timers'[i].running
              /\ (last'.op = "wake" /\ last'.i = i) =>
                     \A k \in 1..Len(tasks[i]) :
                         tasks[i][k].pc # "done" => tasks'[i][k].pc # "done"]_vars

\* the loop of a timer that is not running, and had ticked before, has just
\* woken after a minute without touching the remaining time
C11_Witness ==
    /\ last.op = "wake"
    /\ last.d > 60 * TicksPerSecond
    /\ ~timers[last.i].running
    /\ timers[last.i].remaining = timers[last.i].total_seconds * TicksPerSecond
    /\ \E k \in 1..Len(tasks[last.i]) :
           tasks[last.i][k].pc = "sleep2" /\ tasks[last.i][k].since_tick > 0

\* C12: in every reachable state, for every timer: Start is disabled exactly
\* when running, Pause is disabled exactly when not running, Reset is
\* disabled exactly when remaining = total_seconds and not running.
C12_ButtonsMatchState ==
    \A i \in 1..Len(timers) :
        /\ timers[i].start_disabled <=> timers[i].running
        /\ timers[i].pause_disabled <=> ~timers[i].running
        /\ timers[i].reset_disabled <=>
               (timers[i].remaining = timers[i].total_seconds * TicksPerSecond
                   /\ ~timers[i].running)

\* the step belongs to timer i: a click on one of its buttons or a step of
\* its loop
OwnStep(i) == last'.op \in {"start", "pause", "reset", "wake", "fail"} /\ last'.i = i

\* C13: a Start, Pause or Reset of timer i and any step of its loop leave
\* every other timer as it is, its task handle included, and do nothing to
\* the other timers' tasks (but that the time of the step passes for them).
C13_TimerIsolation ==
    [][\A i \in 1..Len(timers) : \A j \in 1..Len(timers) :
          (OwnStep(i) /\ j # i) =>
              /\ timers'[j] = timers[j]
              /\ tasks'[j] = [k \in 1..Len(tasks[j]) |->
                                 AgedTask(tasks[j][k], last'.d)]]_vars

\* a pass of the first timer's loop has just counted it down while the
\* second timer runs with a task of its own
C13_Witness ==
    /\ last.op = "wake"
    /\ last.i = 1
    /\ timers[1].running
    /\ timers[1].remaining < timers[1].total_seconds * TicksPerSecond
    /\ timers[2].running
    /\ LiveTasks(2) = 1
    /\ timers[2].remaining = timers[2].total_seconds * TicksPerSecond

\* timer i has run out: nothing remains, it does not run, its loop has returned
Finished(i) ==
    /\ timers[i].remaining = 0
    /\ ~timers[i].running
    /\ LiveTasks(i) = 0

\* the step just taken is a click on Start, Pause or Reset of timer i, or a
\* failure of its loop
Interrupted(i) == last.op \in {"start", "pause", "reset", "fail"} /\ last.i = i

\* C14: a timer that is running finishes (remaining = 0, not running, its
\* task returned) unless Start, Pause or Reset is clicked on it again or its
\* loop fails, whichever timer is displayed and whatever the others do.
C14_RunningTimerFinishes ==
    \A i \in OperatedTimers :
        (timers[i].running /\ ~Interrupted(i)) ~> (Finished(i) \/ Interrupted(i))

\* the first timer has just run out while the second is displayed and running
C14_Witness ==
    /\ last.op = "wake"
    /\ last.i = 1
    /\ Finished(1)
    /\ content = 1
    /\ timers[2].running

\* C15: in every reachable state, remaining = 0 implies running = false.
C15_FinishedIsPaused ==
    \A i \in 1..Len(timers) : timers[i].remaining = 0 => ~timers[i].running

\* a failure of the loop of timer i stops the timer, ends the task, keeps
\* total_seconds and touches no other timer
FailureStops(i) ==
    (last'.op = "fail" /\ last'.i = i) =>
        /\ ~timers'[i].running
        /\ LiveTasks(i) = 1
        /\ \A k \in 1..Len(tasks'[i]) : tasks'[i][k].pc = "done"
        /\ timers'[i].total_seconds = timers[i].total_seconds
        /\ \A j \in 1..Len(timers) : j # i =>
               /\ timers'[j] = timers[j]
               /\ tasks'[j] = [k \in 1..Len(tasks[j]) |->
                                  AgedTask(tasks[j][k], last'.d)]

\* timer i is stopped and has had a loop, which has returned
LoopGone(i) ==
    /\ ~timers[i].running
    /\ timers[i].task > 0
    /\ \A k \in 1..Len(tasks[i]) : tasks[i][k].pc = "done"

\* the step sets timer i running and starts exactly one new loop for it
SpawnsOne(i) ==
    /\ timers'[i].running
    /\ tasks'[i] = Append(tasks[i], NewTask)
    /\ timers'[i].task = Len(tasks'[i])

FracLeq(a, b) == a.num * b.den <= b.num * a.den

\* the step is a Reset of timer i or a Start that sets its duration anew
Rewinds(i) ==
    \/ last'.op = "reset" /\ last'.i = i
    \/ /\ StartStep(i)
       /\ ParseInt(last'.txt).ok
       /\ ParseInt(last'.txt).val > 0
       /\ Reconfigures(timers[i], ParseInt(last'.txt).val)

\* C17: the progress fraction of every timer lies in [0, 1], is 0 when
\* remaining = total_seconds and is 1 exactly when remaining = 0; and over
\* every step that is no Reset and no reconfiguring Start of the timer (loop
\* steps, Pause, and everything else) total_seconds stays and the fraction
\* does not decrease.
C17_ProgressMonotone ==
    /\ [](\A i \in 1..Len(timers) :
             LET f == ProgressFraction(timers[i])
             IN  /\ timers[i].total_seconds > 0
                 /\ f.den > 0
                 /\ 0 <= f.num
                 /\ f.num <= f.den
                 /\ (timers[i].remaining = timers[i].total_seconds * TicksPerSecond)
                        => f.num = 0
                 /\ (f.num = f.den) <=> (timers[i].remaining = 0))
    /\ [][\A i \in 1..Len(timers) :
             ~Rewinds(i) =>
                 /\ timers'[i].total_seconds = timers[i].total_seconds
                 /\ FracLeq(ProgressFraction(timers[i]),
                            ProgressFraction(timers'[i]))]_vars

\* a pass of the loop has just moved a running timer's progress on, to
\* somewhere strictly between 0 and 1
C17_Witness ==
    /\ last.op = "wake"
    /\ timers[last.i].running
    /\ ProgressFraction(timers[last.i]).num > 0
    /\ ProgressFraction(timers[last.i]).num < ProgressFraction(timers[last.i]).den

C19_RunningHasLiveTask ==
    \A i \in 1..Len(timers) :
        timers[i].running =>
            /\ LiveTasks(i) >= 1
            /\ timers[i].task > 0
            /\ tasks[i][timers[i].task].pc # "done"

\* Start with "45" has just set a timer running again whose first loop had
\* returned, with a second loop
C19_Witness ==
    /\ last.op = "start"
    /\ last.txt = <<"4", "5">>
    /\ timers[last.i].running
    /\ timers[last.i].task = 2
    /\ tasks[last.i][1].pc = "done"
    /\ tasks[last.i][2].pc = "sleep1"

\* C20: in every reachable state the selected index is a valid index into
\* timers and the displayed view is that timer's; there are as many
\* navigation entries as timers, at least 3; the k-th entry is labelled
\* "Timer k" and shows the k-th timer, which is named "Timer k"; and the
\* number of timers never decreases.
C20_NavigationConsistent ==
    /\ [](/\ 0 <= selected_index
          /\ selected_index < Len(timers)
          /\ content = selected_index
          /\ Len(nav) = Len(timers)
          /\ Len(timers) >= 3
          /\ \A k \in 1..Len(nav) :
                /\ nav[k].target = k - 1
                /\ nav[k].label = <<"T", "i", "m", "e", "r", " ">> \o Str(k)
                /\ timers[k].name = nav[k].label)
    /\ [][Len(timers') >= Len(timers)]_vars

\* the view of a timer that was added has just been selected
C20_Witness ==
    /\ last.op = "show"
    /\ Len(timers) = 4
    /\ selected_index = 3
    /\ content = 3
    /\ nav[4].label = <<"T", "i", "m", "e", "r", " ", "4">>

====
